---- MODULE Spec2Model ----
(***************************************************************************)
(* State-machine model of database.py: the schema descriptor set, the ORM  *)
(* mapping generator, the relationship wiring, deletion through the wired  *)
(* relationships against the PostgreSQL tables the mapping declares, the   *)
(* default_session wrapper and the two timestamp lookups.                  *)
(*                                                                         *)
(* Three specifications share the variables:                               *)
(*   SpecGen      _generate_mapping applied to one table descriptor        *)
(*   Spec         relationship wiring, then creates and deletes of rows    *)
(*   SpecSession  default_session around the timestamp lookups             *)
(***************************************************************************)
EXTENDS Integers, Sequences, FiniteSets, TLC

VARIABLES
    gschema,        \* _generate_mapping: the descriptor being processed (table_schemas[table])
    gi,             \* _generate_mapping: index of the next column of the for loop
    props,          \* _generate_mapping: the props dict, column name -> Column
    gpc,            \* _generate_mapping: "start" | "loop" | "done", or the exception raised
    gclass,         \* _generate_mapping: the returned mapping class, or NoClass
    wpc,            \* module import: index of the next relationship statement (lines 269-300)
    relationships,  \* the relationship() attributes set on the mapping classes so far
    db,             \* the database: <<table, id>> -> column values of the row
    nextId,         \* per table, the next value of its serial primary key
    last,           \* the last database operation and its outcome
    sessions,       \* Session objects created so far: id -> [state, by]
    call            \* the frame of the wrap_with_session call that runs or has just returned

gvars == <<gschema, gi, props, gpc, gclass>>
dbvars == <<wpc, relationships, db, nextId, last>>
svars == <<sessions, call>>
vars == <<gschema, gi, props, gpc, gclass, wpc, relationships, db, nextId, last, sessions, call>>

(***************************************************************************)
(* Bounds of the model.                                                    *)
(***************************************************************************)
MaxCols == 2        \* columns of a drawn (non-repository) table descriptor
MaxCreates == 3     \* rows inserted in one behaviour of Spec
MaxSessions == 3    \* Session objects created in one behaviour of SpecSession
MaxRows == 2        \* slice/experiment rows inserted in one behaviour of SpecSession

\* Python None / SQL NULL.  Primary keys start at 1.
NULL == 0

(***************************************************************************)
(* Python strings.  Names are TLA+ strings; str.endswith needs the         *)
(* characters, which Chars gives for the strings that are not keys of      *)
(* _coltypes (the only ones endswith is applied to).                       *)
(***************************************************************************)
Chars(s) ==
    CASE s = "slice.id" -> <<"s","l","i","c","e",".","i","d">>
      [] s = "experiment.id" -> <<"e","x","p","e","r","i","m","e","n","t",".","i","d">>
      [] s = "electrode.id" -> <<"e","l","e","c","t","r","o","d","e",".","i","d">>
      [] s = "cell.id" -> <<"c","e","l","l",".","i","d">>
      [] s = "pair.id" -> <<"p","a","i","r",".","i","d">>
      [] s = "sync_rec.id" -> <<"s","y","n","c","_","r","e","c",".","i","d">>
      [] s = "recording.id" -> <<"r","e","c","o","r","d","i","n","g",".","i","d">>
      [] s = "patch_clamp_recording.id" ->
            <<"p","a","t","c","h","_","c","l","a","m","p","_","r","e","c","o","r","d","i","n","g",".","i","d">>
      [] s = "test_pulse.id" -> <<"t","e","s","t","_","p","u","l","s","e",".","i","d">>
      [] s = "stim_pulse.id" -> <<"s","t","i","m","_","p","u","l","s","e",".","i","d">>
      [] s = "baseline.id" -> <<"b","a","s","e","l","i","n","e",".","i","d">>
      [] s = "nosuch.id" -> <<"n","o","s","u","c","h",".","i","d">>
      [] s = ".id" -> <<".","i","d">>
      [] s = "id" -> <<"i","d">>
      [] s = "slice.idx" -> <<"s","l","i","c","e",".","i","d","x">>
      [] s = "integer" -> <<"i","n","t","e","g","e","r">>
      [] s = "string" -> <<"s","t","r","i","n","g">>
      [] s = "slice" -> <<"s","l","i","c","e">>
      [] s = "experiment" -> <<"e","x","p","e","r","i","m","e","n","t">>
      [] s = "electrode" -> <<"e","l","e","c","t","r","o","d","e">>
      [] s = "cell" -> <<"c","e","l","l">>
      [] s = "pair" -> <<"p","a","i","r">>
      [] s = "sync_rec" -> <<"s","y","n","c","_","r","e","c">>
      [] s = "recording" -> <<"r","e","c","o","r","d","i","n","g">>
      [] s = "patch_clamp_recording" ->
            <<"p","a","t","c","h","_","c","l","a","m","p","_","r","e","c","o","r","d","i","n","g">>
      [] s = "multi_patch_probe" ->
            <<"m","u","l","t","i","_","p","a","t","c","h","_","p","r","o","b","e">>
      [] s = "test_pulse" -> <<"t","e","s","t","_","p","u","l","s","e">>
      [] s = "stim_pulse" -> <<"s","t","i","m","_","p","u","l","s","e">>
      [] s = "stim_spike" -> <<"s","t","i","m","_","s","p","i","k","e">>
      [] s = "baseline" -> <<"b","a","s","e","l","i","n","e">>
      [] s = "pulse_response" -> <<"p","u","l","s","e","_","r","e","s","p","o","n","s","e">>
      [] s = "nosuch" -> <<"n","o","s","u","c","h">>
      [] s = "" -> <<>>

\* coltype.endswith('.id')
EndsWithDotId(coltype) ==
    LET c == Chars(coltype)
    IN  /\ Len(c) >= 3
        /\ SubSeq(c, Len(c) - 2, Len(c)) = <<".", "i", "d">>

(***************************************************************************)
(* table_schemas.  An entry of a descriptor is the leading doc string or a *)
(* column tuple (name, type, comment, kwds); the comment text is dropped,  *)
(* kwds is kept as the set of its keys.                                    *)
(***************************************************************************)
Doc == [kind |-> "doc"]
Col(n, t) == [kind |-> "col", name |-> n, type |-> t, kwds |-> {}]
UCol(n, t) == [kind |-> "col", name |-> n, type |-> t, kwds |-> {"unique"}]

TableNames ==
    {"slice", "experiment", "electrode", "cell", "pair", "sync_rec", "recording",
     "patch_clamp_recording", "multi_patch_probe", "test_pulse", "stim_pulse",
     "stim_spike", "baseline", "pulse_response"}

table_schemas ==
    [t \in TableNames |->
      CASE t = "slice" -> <<Doc,
            UCol("acq_timestamp", "datetime"), Col("species", "str"), Col("age", "int"),
            Col("genotype", "str"), Col("orientation", "str"), Col("surface", "str"),
            Col("hemisphere", "str"), Col("quality", "int"), Col("slice_time", "datetime"),
            Col("slice_conditions", "object"), Col("lims_specimen_name", "str"),
            Col("original_path", "str"), Col("submission_data", "object")>>
        [] t = "experiment" -> <<Doc,
            Col("original_path", "str"), UCol("acq_timestamp", "datetime"),
            Col("slice_id", "slice.id"), Col("target_region", "str"), Col("internal", "str"),
            Col("acsf", "str"), Col("target_temperature", "float"), Col("date", "datetime"),
            Col("lims_specimen_id", "int"), Col("submission_data", "object"),
            Col("lims_trigger_id", "int"), Col("connectivity_analysis_complete", "bool"),
            Col("kinetics_analysis_complete", "bool")>>
        [] t = "electrode" -> <<Doc,
            Col("expt_id", "experiment.id"), Col("patch_status", "str"), Col("device_key", "int"),
            Col("initial_resistance", "float"), Col("initial_current", "float"),
            Col("pipette_offset", "float"), Col("final_resistance", "float"),
            Col("final_current", "float"), Col("notes", "str")>>
        [] t = "cell" -> <<
            Col("electrode_id", "electrode.id"), Col("cre_type", "str"), Col("patch_start", "float"),
            Col("patch_stop", "float"), Col("seal_resistance", "float"), Col("has_biocytin", "bool"),
            Col("has_dye_fill", "bool"), Col("pass_qc", "bool"), Col("pass_spike_qc", "bool"),
            Col("depth", "float"), Col("position", "object")>>
        [] t = "pair" -> <<Doc,
            Col("pre_cell", "cell.id"), Col("post_cell", "cell.id"), Col("synapse", "bool"),
            Col("electrical", "bool")>>
        [] t = "sync_rec" -> <<
            Col("experiment_id", "experiment.id"), Col("sync_rec_key", "object"),
            Col("temperature", "float"), Col("meta", "object")>>
        [] t = "recording" -> <<
            Col("sync_rec_id", "sync_rec.id"), Col("device_key", "int"),
            Col("start_time", "datetime")>>
        [] t = "patch_clamp_recording" -> <<Doc,
            Col("recording_id", "recording.id"), Col("electrode_id", "electrode.id"),
            Col("clamp_mode", "str"), Col("patch_mode", "str"), Col("stim_name", "object"),
            Col("baseline_potential", "float"), Col("baseline_current", "float"),
            Col("baseline_rms_noise", "float"), Col("nearest_test_pulse_id", "test_pulse.id")>>
        [] t = "multi_patch_probe" -> <<Doc,
            Col("patch_clamp_recording_id", "patch_clamp_recording.id"),
            Col("induction_frequency", "float"), Col("recovery_delay", "float"),
            Col("n_spikes_evoked", "int")>>
        [] t = "test_pulse" -> <<
            Col("start_index", "int"), Col("stop_index", "int"), Col("baseline_current", "float"),
            Col("baseline_potential", "float"), Col("access_resistance", "float"),
            Col("input_resistance", "float"), Col("capacitance", "float"),
            Col("time_constant", "float")>>
        [] t = "stim_pulse" -> <<Doc,
            Col("recording_id", "recording.id"), Col("pulse_number", "int"),
            Col("onset_time", "float"), Col("onset_index", "int"), Col("next_pulse_index", "int"),
            Col("amplitude", "float"), Col("length", "int"), Col("n_spikes", "int")>>
        [] t = "stim_spike" -> <<Doc,
            Col("recording_id", "recording.id"), Col("pulse_id", "stim_pulse.id"),
            Col("peak_index", "int"), Col("peak_diff", "float"), Col("peak_val", "float"),
            Col("rise_index", "int"), Col("max_dvdt", "float")>>
        [] t = "baseline" -> <<Doc,
            Col("recording_id", "recording.id"), Col("start_index", "int"),
            Col("stop_index", "int"), Col("data", "array"), Col("mode", "float")>>
        [] t = "pulse_response" -> <<Doc,
            Col("recording_id", "recording.id"), Col("pulse_id", "stim_pulse.id"),
            Col("pair_id", "pair.id"), Col("start_index", "int"), Col("stop_index", "int"),
            Col("data", "array"), Col("baseline_id", "baseline.id")>>]

(***************************************************************************)
(* _coltypes and _generate_mapping.                                        *)
(***************************************************************************)
_coltypes ==
    [t \in {"int", "float", "bool", "str", "date", "datetime", "array", "object"} |->
      CASE t = "int" -> "Integer"
        [] t = "float" -> "FloatType"
        [] t = "bool" -> "Boolean"
        [] t = "str" -> "String"
        [] t = "date" -> "Date"
        [] t = "datetime" -> "DateTime"
        [] t = "array" -> "NDArray"
        [] t = "object" -> "JSONB"]

NoFK == ""
NoClass == [tablename |-> "", props |-> <<>>]

\* Column(ctype, [ForeignKey(fk)], **kwds)
Column(ctype, fk, kwds) == [ctype |-> ctype, fk |-> fk, kwds |-> kwds]

\* The props dict before the column loop (lines 229-236).
ImplicitProps ==
    [n \in {"id", "time_created", "time_modified", "meta"} |->
      CASE n = "id" -> Column("Integer", NoFK, {"primary_key"})
        [] n = "time_created" -> Column("DateTime", NoFK, {"default"})
        [] n = "time_modified" -> Column("DateTime", NoFK, {"onupdate"})
        [] n = "meta" -> Column("JSONB", NoFK, {})]

\* props[colname] = value: a dict assignment adds the key or replaces its value.
DictSetKeepFirst(d, k, v) == [x \in DOMAIN d \cup {k} |-> IF x \in DOMAIN d THEN d[x] ELSE v]

DictSet(d, k, v) == [x \in DOMAIN d \cup {k} |-> IF x = k THEN v ELSE d[x]]

\* Lines 242-248: a Column, or the ValueError of line 244.
ResolveColumnAnyFK(column) ==
    IF column.type \notin DOMAIN _coltypes
    THEN [ok |-> TRUE, col |-> Column("Integer", column.type, column.kwds \cup {"comment"})]
    ELSE [ok |-> TRUE, col |-> Column(_coltypes[column.type], NoFK, column.kwds \cup {"comment"})]

ResolveColumn(column) ==
    IF column.type \notin DOMAIN _coltypes
    THEN IF ~EndsWithDotId(column.type)
         THEN [ok |-> FALSE, col |-> Column("", NoFK, {})]
         ELSE [ok |-> TRUE, col |-> Column("Integer", column.type, column.kwds \cup {"comment"})]
    ELSE [ok |-> TRUE, col |-> Column(_coltypes[column.type], NoFK, column.kwds \cup {"comment"})]

\* Lines 223-236: strip the doc string, build the implicit columns.
GenStart ==
    /\ gpc = "start"
    /\ IF Len(gschema.schema) = 0
       THEN \* schema[0] raises IndexError
            /\ gpc' = "IndexError"
            /\ UNCHANGED <<gschema, gi, props, gclass>>
       ELSE /\ gschema' = [gschema EXCEPT !.schema =
                              IF gschema.schema[1].kind = "doc" THEN Tail(@) ELSE @]
            /\ props' = ImplicitProps
            /\ gi' = 1
            /\ gpc' = "loop"
            /\ UNCHANGED gclass
    /\ UNCHANGED <<dbvars, svars>>

\* One iteration of the for loop, lines 237-248.
GenColumn ==
    /\ gpc = "loop"
    /\ gi <= Len(gschema.schema)
    /\ LET column == gschema.schema[gi]
           r == ResolveColumn(column)
       IN  IF r.ok
           THEN /\ props' = DictSet(props, column.name, r.col)
                /\ gi' = gi + 1
                /\ UNCHANGED gpc
           ELSE /\ gpc' = "ValueError"
                /\ UNCHANGED <<props, gi>>
    /\ UNCHANGED <<gschema, gclass, dbvars, svars>>

\* Line 249: return type(name, (ORMBase,), props).  The declarative base maps the
\* class as it is created, and a table whose columns have no primary key cannot be
\* mapped: the call raises ArgumentError.
GenFinish ==
    /\ gpc = "loop"
    /\ gi > Len(gschema.schema)
    /\ IF "primary_key" \in props["id"].kwds
       THEN /\ gclass' = [tablename |-> gschema.table, props |-> props]
            /\ gpc' = "done"
       ELSE /\ gpc' = "ArgumentError"
            /\ UNCHANGED gclass
    /\ UNCHANGED <<gschema, gi, props, dbvars, svars>>

(***************************************************************************)
(* Foreign keys declared by table_schemas, as the generated classes carry  *)
(* them: ForeignKey("<table>.id") names the column id of <table>.          *)
(***************************************************************************)
Columns(t) ==
    {table_schemas[t][i] : i \in {j \in 1..Len(table_schemas[t]) : table_schemas[t][j].kind = "col"}}

\* The table a ForeignKey colspec names, "" when no table of the metadata has that name.
FKTable(coltype) ==
    LET m == {t \in TableNames : Chars(t) \o <<".", "i", "d">> = Chars(coltype)}
    IN  IF m = {} THEN "" ELSE CHOOSE t \in m : TRUE

\* The foreign-key columns of the schema, [table, col, target]: the columns
\* _generate_mapping builds with a ForeignKey.
ForeignKeys ==
    UNION {{[table |-> t, col |-> c.name, target |-> FKTable(c.type)] :
                c \in {x \in Columns(t) : ResolveColumn(x).ok /\ ResolveColumn(x).col.fk # NoFK}} :
            t \in TableNames}

FKColumns(t) == {f \in ForeignKeys : f.table = t}

\* The columns created with unique=True, <<table, col>>.
UniqueKeys ==
    UNION {{<<t, c.name>> : c \in {x \in Columns(t) : "unique" \in x.kwds}} : t \in TableNames}

UniqueColumns(t) == {u[2] : u \in {x \in UniqueKeys : x[1] = t}}

\* The columns of a row the model keeps: foreign keys and unique keys.
RowCols(t) == {f.col : f \in FKColumns(t)} \cup UniqueColumns(t)

(***************************************************************************)
(* Relationship wiring, lines 269-300, one statement per step.             *)
(***************************************************************************)
\* A relationship() call read as an attribute of the class it names, not of the
\* class it is assigned to.
RelOnTarget(o, a, t, c, b) == [owner |-> t, attr |-> a, target |-> o, cascade |-> c, back_populates |-> b]

\* <Class>.<attr> = relationship(<Target>, cascade=..., back_populates=...): the
\* attribute belongs to the class on the left of the assignment.
Rel(o, a, t, c, b) == [owner |-> o, attr |-> a, target |-> t, cascade |-> c, back_populates |-> b]

\* The cascade of a relationship() call that passes none.
DefaultCascade == {"save-update", "merge"}

WiringStatements == <<
    Rel("slice", "experiments", "experiment", DefaultCascade, "slice"),
    Rel("experiment", "slice", "slice", DefaultCascade, "experiments"),
    Rel("experiment", "sync_recs", "sync_rec", {"delete"}, "experiment"),
    Rel("sync_rec", "experiment", "experiment", DefaultCascade, "sync_recs"),
    Rel("sync_rec", "recordings", "recording", {"delete"}, "sync_rec"),
    Rel("recording", "sync_rec", "sync_rec", DefaultCascade, "recordings"),
    Rel("recording", "patch_clamp_recording", "patch_clamp_recording", {"delete"}, "recording"),
    Rel("patch_clamp_recording", "recording", "recording", DefaultCascade, "patch_clamp_recording"),
    Rel("patch_clamp_recording", "multi_patch_probe", "multi_patch_probe", {"delete"}, "patch_clamp_recording"),
    Rel("multi_patch_probe", "patch_clamp_recording", "patch_clamp_recording", DefaultCascade, "multi_patch_probe"),
    Rel("patch_clamp_recording", "nearest_test_pulse", "test_pulse", {"delete"}, ""),
    Rel("recording", "stim_pulses", "stim_pulse", {"delete"}, "recording"),
    Rel("stim_pulse", "recording", "recording", DefaultCascade, "stim_pulses"),
    Rel("recording", "stim_spikes", "stim_spike", {"delete"}, "recording"),
    Rel("stim_spike", "recording", "recording", DefaultCascade, "stim_spikes"),
    Rel("stim_spike", "pulse", "stim_pulse", DefaultCascade, ""),
    Rel("recording", "baselines", "baseline", {"delete"}, "recording"),
    Rel("baseline", "recording", "recording", DefaultCascade, "baselines"),
    Rel("pulse_response", "recording", "recording", DefaultCascade, ""),
    Rel("pulse_response", "stim_pulse", "stim_pulse", DefaultCascade, ""),
    Rel("pulse_response", "baseline", "baseline", DefaultCascade, "")>>

AllRelationships == {WiringStatements[i] : i \in 1..Len(WiringStatements)}

\* One assignment <Class>.<attr> = relationship(...).
Wire ==
    /\ wpc <= Len(WiringStatements)
    /\ relationships' = relationships \cup {WiringStatements[wpc]}
    /\ wpc' = wpc + 1
    /\ UNCHANGED <<db, nextId, last, gvars, svars>>

Wired == wpc > Len(WiringStatements)

\* The join of a relationship, as the mapper derives it from the foreign keys between
\* the two tables: the target holds the key (one-to-many) or the owner does (many-to-one).
JoinOf(r) ==
    LET down == {f \in FKColumns(r.target) : f.target = r.owner}
        up == {f \in FKColumns(r.owner) : f.target = r.target}
    IN  IF down # {}
        THEN [direction |-> "ONETOMANY", holder |-> r.target, col |-> (CHOOSE f \in down : TRUE).col]
        ELSE [direction |-> "MANYTOONE", holder |-> r.owner, col |-> (CHOOSE f \in up : TRUE).col]

\* The joins of the relationships of the module, derived once.
Joins == {<<r, JoinOf(r)>> : r \in AllRelationships}

RelJoin(r) == (CHOOSE p \in Joins : p[1] = r)[2]

(***************************************************************************)
(* The database.  A row is keyed <<table, id>>; the tables are those       *)
(* ORMBase.metadata.create_all makes, so every ForeignKey is a FOREIGN KEY *)
(* constraint and unique=True a UNIQUE constraint of the server.           *)
(***************************************************************************)
Rows(d, t) == {k \in DOMAIN d : k[1] = t}

NoKey == <<"", NULL>>

\* What a call gives its caller.
Return(k) == [kind |-> "return", exc |-> "", value |-> k]
Raise(e) == [kind |-> "raise", exc |-> e, value |-> NoKey]
NoResult == [kind |-> "none", exc |-> "", value |-> NoKey]

\* No wrap_with_session call: none was made, or the caller has gone on since.
Idle == [pc |-> "idle", fn |-> "", ts |-> NULL, mode |-> "", arg |-> NULL, close |-> FALSE,
         session |-> NULL, ranOn |-> NULL, result |-> NoResult]

\* No call is running: the caller acts.
Quiet == call.pc \in {"idle", "returned"}

\* Rows of r.target reached from row k through relationship r of k's class.
Related(d, r, k) ==
    LET j == RelJoin(r)
    IN  IF k[1] # r.owner THEN {}
        ELSE IF j.direction = "ONETOMANY"
        THEN {c \in Rows(d, r.target) : d[c][j.col] = k[2]}
        ELSE {p \in Rows(d, r.target) : p[2] = d[k][j.col]}

\* Does deleting a row of r.owner delete the rows r relates it to?
CascadesDeleteNever(r) == FALSE

CascadesDeleteAlways(r) == TRUE

CascadesDelete(r) == "delete" \in r.cascade

\* session.delete: the rows marked deleted with row k, through every relationship
\* whose cascade has "delete".
CascadeStep(d, rels, D) ==
    D \cup UNION {Related(d, r, k) : r \in {x \in rels : CascadesDelete(x)}, k \in D}

RECURSIVE CascadeClosure(_, _, _)
CascadeClosure(d, rels, D) ==
    LET n == CascadeStep(d, rels, D)
    IN  IF n = D THEN D ELSE CascadeClosure(d, rels, n)

\* flush: the children of a deleted parent that a one-to-many relationship without
\* delete cascade relates to it get their foreign key set to NULL.
Nulled(d, rels, D) ==
    UNION {{<<c, RelJoin(r).col>> : c \in Related(d, r, k) \ D} :
              r \in {x \in rels : ~CascadesDelete(x) /\ RelJoin(x).direction = "ONETOMANY"},
              k \in D}

AfterDelete(d, rels, D) ==
    LET nl == Nulled(d, rels, D)
    IN  [c \in DOMAIN d \ D |->
            [col \in DOMAIN d[c] |-> IF <<c, col>> \in nl THEN NULL ELSE d[c][col]]]

\* The FOREIGN KEY constraints of the tables.
ForeignKeysHoldUnchecked(d) == TRUE

ForeignKeysHold(d) ==
    \A c \in DOMAIN d : \A f \in FKColumns(c[1]) :
        d[c][f.col] = NULL \/ <<f.target, d[c][f.col]>> \in DOMAIN d

\* The UNIQUE constraints of the tables; NULLs are distinct.
UniqueHolds(d) ==
    \A c1, c2 \in DOMAIN d : \A u \in UniqueColumns(c1[1]) :
        (c1 # c2 /\ c1[1] = c2[1] /\ d[c1][u] # NULL) => d[c1][u] # d[c2][u]

RECURSIVE Inserted(_, _)
Inserted(n, S) ==
    IF S = {} THEN 0
    ELSE LET t == CHOOSE x \in S : TRUE IN (n[t] - 1) + Inserted(n, S \ {t})

\* The values an insert into t may carry in column c: a stamp for the unique key,
\* NULL or the id of a row of the referenced table for a foreign key.
ColChoices(t, c, stamps) ==
    IF c \in UniqueColumns(t) THEN stamps
    ELSE {NULL} \cup {k[2] : k \in Rows(db, (CHOOSE f \in FKColumns(t) : f.col = c).target)}

RowValues(t, stamps) ==
    LET ch == [c \in RowCols(t) |-> ColChoices(t, c, stamps)]
    IN  {v \in [RowCols(t) -> UNION {ch[c] : c \in RowCols(t)}] : \A c \in RowCols(t) : v[c] \in ch[c]}

\* session.add(<Class>(**vals)); session.commit(), for a class of `tables`.
CreateRow(tables, stamps, budget) ==
    /\ Wired
    /\ Quiet
    /\ Inserted(nextId, TableNames) < budget
    /\ \E t \in tables : \E vals \in RowValues(t, stamps) :
        LET k == <<t, nextId[t]>>
            after == [c \in DOMAIN db \cup {k} |-> IF c = k THEN vals ELSE db[c]]
            ok == ForeignKeysHold(after) /\ UniqueHolds(after)
        IN  /\ db' = IF ok THEN after ELSE db
            /\ last' = [op |-> "create", key |-> IF ok THEN NoKey ELSE k, ok |-> ok, pre |-> db]
            /\ nextId' = [nextId EXCEPT ![t] = @ + 1]
    /\ call' = Idle
    /\ UNCHANGED <<wpc, relationships, sessions, gvars>>

\* session.delete(row); session.commit()
DeleteRow(k) ==
    /\ Wired
    /\ Quiet
    /\ k \in DOMAIN db
    /\ LET D == CascadeClosure(db, relationships, {k})
           after == AfterDelete(db, relationships, D)
           ok == ForeignKeysHold(after)
       IN  /\ db' = IF ok THEN after ELSE db
           /\ last' = [op |-> "delete", key |-> k, ok |-> ok, pre |-> db]
    /\ call' = Idle
    /\ UNCHANGED <<wpc, relationships, nextId, sessions, gvars>>

(***************************************************************************)
(* default_session and the timestamp lookups, lines 338-372.               *)
(***************************************************************************)
\* session.query(<Class>).filter(<Class>.acq_timestamp == ts).all();
\* a comparison with None is rendered IS NULL, so None matches the NULL stamps.
Query(d, t, ts) == {k \in Rows(d, t) : d[k]["acq_timestamp"] = ts}

slice_from_timestamp(d, ts) ==
    LET slices == Query(d, "slice", ts)
    IN  IF Cardinality(slices) = 0 THEN Raise("KeyError")
        ELSE IF Cardinality(slices) > 1 THEN Raise("KeyError")
        ELSE Return(CHOOSE k \in slices : TRUE)

experiment_from_timestamp(d, ts) ==
    LET expts == Query(d, "experiment", ts)
    IN  IF Cardinality(expts) = 0 THEN Raise("KeyError")
        ELSE IF Cardinality(expts) > 1 THEN Raise("RuntimeError")
        ELSE Return(CHOOSE k \in expts : TRUE)

Lookups == {"slice_from_timestamp", "experiment_from_timestamp"}
LookupTable(fn) == IF fn = "slice_from_timestamp" THEN "slice" ELSE "experiment"
Lookup(fn, d, ts) ==
    IF fn = "slice_from_timestamp" THEN slice_from_timestamp(d, ts)
    ELSE experiment_from_timestamp(d, ts)

\* How the caller passes its session: not at all, session=None, session=s, or as
\* the second positional argument.
Modes == {"absent", "none", "keyword", "positional"}

\* kwds.get('session', None) is None
NoSessionKeyword(mode) == mode # "keyword"

\* The finally clause, lines 347-349: runs on return and on raise.
ClosesOnlyOnReturn(close, result) == close /\ result.kind = "return"

Closes(close, result) == close

\* Session(), by the caller.
CallerOpen ==
    /\ Quiet
    /\ Len(sessions) < MaxSessions
    /\ sessions' = Append(sessions, [state |-> "open", by |-> "caller"])
    /\ call' = Idle
    /\ UNCHANGED <<dbvars, gvars>>

\* session.close(), by the caller on a session of its own.
CallerClose(s) ==
    /\ Quiet
    /\ s \in 1..Len(sessions)
    /\ sessions[s].by = "caller"
    /\ sessions[s].state = "open"
    /\ sessions' = [sessions EXCEPT ![s].state = "closed"]
    /\ call' = Idle
    /\ UNCHANGED <<dbvars, gvars>>

\* wrap_with_session, lines 340-343.  arg is the caller's session (NULL for none).
CallEnter(fn, ts, mode, arg) ==
    /\ Quiet
    /\ IF mode \in {"keyword", "positional"}
       THEN arg \in 1..Len(sessions) /\ sessions[arg].by = "caller" /\ sessions[arg].state = "open"
       ELSE arg = NULL
    /\ IF NoSessionKeyword(mode)
       THEN /\ Len(sessions) < MaxSessions
            /\ sessions' = Append(sessions, [state |-> "open", by |-> "wrapper"])
            /\ call' = [Idle EXCEPT !.pc = "entered", !.fn = fn, !.ts = ts, !.mode = mode,
                                    !.arg = arg, !.close = TRUE,
                                    !.session = Len(sessions) + 1]
       ELSE /\ call' = [Idle EXCEPT !.pc = "entered", !.fn = fn, !.ts = ts, !.mode = mode,
                                    !.arg = arg, !.session = arg]
            /\ UNCHANGED sessions
    /\ UNCHANGED <<dbvars, gvars>>

\* Line 345, ret = fn(*args, **kwds).  A session passed by position is bound to the
\* parameter session, and the keyword the wrapper added names it a second time:
\* the call raises TypeError before the body runs.
CallRun ==
    /\ call.pc = "entered"
    /\ IF call.mode = "positional"
       THEN call' = [call EXCEPT !.pc = "ran", !.result = Raise("TypeError")]
       ELSE call' = [call EXCEPT !.pc = "ran", !.ranOn = call.session,
                                 !.result = Lookup(call.fn, db, call.ts)]
    /\ UNCHANGED <<sessions, dbvars, gvars>>

\* Lines 346-349: the finally clause, then the return or the raise reaches the caller.
CallExit ==
    /\ call.pc = "ran"
    /\ sessions' = IF Closes(call.close, call.result)
                   THEN [sessions EXCEPT ![call.session].state = "closed"]
                   ELSE sessions
    /\ call' = [call EXCEPT !.pc = "returned"]
    /\ UNCHANGED <<dbvars, gvars>>

(***************************************************************************)
(* Specifications.                                                         *)
(***************************************************************************)
NoLast == [op |-> "none", key |-> NoKey, ok |-> TRUE, pre |-> <<>>]

GenIdle ==
    /\ gschema = [table |-> "", schema |-> <<>>]
    /\ gi = 0
    /\ props = <<>>
    /\ gpc = "idle"
    /\ gclass = NoClass

SessionIdle ==
    /\ sessions = <<>>
    /\ call = Idle

\* The timestamps of the rows and of the lookups.
Stamps == {NULL, 1}

\* Column names and logical type strings of the drawn descriptors.
SynthNames == {"id", "meta", "a"}
SynthTypes == {"int", "date", "object", "slice.id", "nosuch.id", ".id", "slice.idx", "integer"}
SynthCols == {Col(n, t) : n \in SynthNames, t \in SynthTypes}

RECURSIVE SeqsUpTo(_, _)
SeqsUpTo(S, n) ==
    IF n = 0 THEN {<<>>}
    ELSE LET shorter == SeqsUpTo(S, n - 1)
         IN  shorter \cup {Append(q, x) : q \in {y \in shorter : Len(y) = n - 1}, x \in S}

Descriptors ==
    {[table |-> t, schema |-> table_schemas[t]] : t \in TableNames}
    \cup {[table |-> "t", schema |-> q] : q \in SeqsUpTo(SynthCols, MaxCols)}
    \cup {[table |-> "t", schema |-> <<Doc>> \o q] : q \in SeqsUpTo(SynthCols, MaxCols)}
    \cup {[table |-> "t", schema |-> <<Col("a", t)>>] : t \in DOMAIN _coltypes \cup {"id", "string"}}

\* _generate_mapping(table), called on one descriptor.
InitGen ==
    /\ gschema \in Descriptors
    /\ gi = 1
    /\ props = <<>>
    /\ gpc = "start"
    /\ gclass = NoClass
    /\ wpc = 1
    /\ relationships = {}
    /\ db = <<>>
    /\ nextId = [t \in TableNames |-> 1]
    /\ last = NoLast
    /\ SessionIdle

NextGen == GenStart \/ GenColumn \/ GenFinish

SpecGen == InitGen /\ [][NextGen]_vars

\* The tables rows are inserted into.
DbTables == TableNames \ {"cell", "pair"}

\* The module after line 266: the mapping classes exist, no relationship yet,
\* the database is empty.
Init ==
    /\ GenIdle
    /\ wpc = 1
    /\ relationships = {}
    /\ db = <<>>
    /\ nextId = [t \in TableNames |-> 1]
    /\ last = NoLast
    /\ SessionIdle

Next ==
    \/ Wire
    \/ CreateRow(DbTables, {NULL}, MaxCreates)
    \/ \E k \in DOMAIN db : DeleteRow(k)

Spec == Init /\ [][Next]_vars

\* The imported module: all relationships wired, the database empty, no session.
InitSession ==
    /\ GenIdle
    /\ wpc = Len(WiringStatements) + 1
    /\ relationships = AllRelationships
    /\ db = <<>>
    /\ nextId = [t \in TableNames |-> 1]
    /\ last = NoLast
    /\ SessionIdle

NextSession ==
    \/ CreateRow({"slice", "experiment"}, Stamps, MaxRows)
    \/ CallerOpen
    \/ \E s \in 1..Len(sessions) : CallerClose(s)
    \/ \E fn \in Lookups, ts \in Stamps, mode \in Modes, arg \in 0..Len(sessions) :
          CallEnter(fn, ts, mode, arg)
    \/ CallRun
    \/ CallExit

SpecSession == InitSession /\ [][NextSession]_vars

(***************************************************************************)
(* Properties of _generate_mapping, checked under SpecGen.                 *)
(***************************************************************************)
ClosedTypes == {"int", "float", "bool", "str", "date", "datetime", "array", "object"}
ImplicitNames == {"id", "time_created", "time_modified", "meta"}

\* s is "<table>.id" for some string <table>.
HasFkForm(s) ==
    LET c == Chars(s)
    IN  \E n \in 0..Len(c) : c = SubSeq(c, 1, n) \o <<".", "i", "d">>

Recognized(type) == type \in ClosedTypes \/ HasFkForm(type)

GenRaised == gpc \in {"ValueError", "IndexError", "ArgumentError"}

\* The columns the loop has been through, and for each name the last of them.
Processed == IF gpc \in {"start", "IndexError"} THEN {} ELSE 1..(gi - 1)
LastOf(n) == CHOOSE i \in Processed :
                /\ gschema.schema[i].name = n
                /\ \A j \in Processed : gschema.schema[j].name = n => j <= i
DeclaredNames == {gschema.schema[i].name : i \in Processed}

\* C7: a logical type of the closed set resolves to its registered encoding, a
\* string "<table>.id" to an integer column with a foreign key to <table>.id, and
\* any other string makes _generate_mapping raise at generation, returning no class.
C7_TypeResolution ==
    /\ \A n \in DeclaredNames :
          LET t == gschema.schema[LastOf(n)].type
          IN  /\ Recognized(t)
              /\ t \in ClosedTypes => props[n].ctype = _coltypes[t] /\ props[n].fk = NoFK
              /\ t \notin ClosedTypes => props[n].ctype = "Integer" /\ props[n].fk = t
    /\ gpc = "ValueError" => ~Recognized(gschema.schema[gi].type)
    /\ GenRaised => gclass = NoClass
    /\ gpc = "done" => \A i \in 1..Len(gschema.schema) : Recognized(gschema.schema[i].type)

\* C7 witness: the second column of a descriptor has an unrecognized type after a
\* foreign-key column was resolved; the generation raised.
C7_Witness ==
    /\ gpc = "ValueError"
    /\ gi = 2
    /\ gschema.schema[1].type = "slice.id"
    /\ props[gschema.schema[1].name].fk = "slice.id"
    /\ gschema.schema[2].type = "slice.idx"

HasDuplicateName ==
    \/ \E i, j \in 1..Len(gschema.schema) : i # j /\ gschema.schema[i].name = gschema.schema[j].name
    \/ \E i \in 1..Len(gschema.schema) : gschema.schema[i].name \in ImplicitNames

\* C9 as stated: a descriptor with a repeated column name never yields a class, and
\* a generated class has the four implicit columns plus one field per declared column.
C9_DuplicateRejected ==
    gpc = "done" =>
        /\ ~HasDuplicateName
        /\ Cardinality(DOMAIN gclass.props) = 4 + Len(gschema.schema)

\* C9 amended: a repeated column name raises nothing in the column loop; the later
\* declaration replaces the earlier one, a declared column replaces the implicit
\* column of its name, and the class has one field per distinct name.  Only a
\* declared id, which replaces the primary key, makes the class creation fail.
C9_LastDeclarationWins ==
    /\ gpc \in {"loop", "done", "ArgumentError"} =>
          /\ DOMAIN props = ImplicitNames \cup DeclaredNames
          /\ \A n \in DeclaredNames :
                LET c == gschema.schema[LastOf(n)]
                IN  props[n] = ResolveColumn(c).col /\ "comment" \in props[n].kwds
          /\ \A n \in ImplicitNames \ DeclaredNames : props[n] = ImplicitProps[n]
    /\ gpc = "ValueError" => ~ResolveColumn(gschema.schema[gi]).ok
    /\ gpc = "ArgumentError" => "id" \in DeclaredNames
    /\ gpc = "done" => gclass.props = props /\ "id" \notin DeclaredNames

\* C9 witness: table_schemas['sync_rec'] declares meta; the class is generated and
\* its meta is the declared column.
C9_Witness ==
    /\ gpc = "done"
    /\ gschema.table = "sync_rec"
    /\ gclass.props["meta"] = Column("JSONB", NoFK, {"comment"})
    /\ Cardinality(DOMAIN gclass.props) = 7

(***************************************************************************)
(* Properties of the relationship wiring and of deletion, checked under    *)
(* Spec.                                                                   *)
(***************************************************************************)
Deleted == last.op = "delete" /\ last.ok
Removed == DOMAIN last.pre \ DOMAIN db

\* The owning edges C4 names, <<child table, foreign key, parent table>>.
OwningEdges ==
    {<<"sync_rec", "experiment_id", "experiment">>,
     <<"recording", "sync_rec_id", "sync_rec">>,
     <<"patch_clamp_recording", "recording_id", "recording">>,
     <<"multi_patch_probe", "patch_clamp_recording_id", "patch_clamp_recording">>,
     <<"stim_pulse", "recording_id", "recording">>,
     <<"stim_spike", "recording_id", "recording">>,
     <<"baseline", "recording_id", "recording">>}

OwnedBy(d, K) ==
    {c \in DOMAIN d : \E e \in OwningEdges : \E k \in K :
        c[1] = e[1] /\ k[1] = e[3] /\ d[c][e[2]] = k[2]}

RECURSIVE Subtree(_, _)
Subtree(d, K) ==
    LET n == K \cup OwnedBy(d, K)
    IN  IF n = K THEN K ELSE Subtree(d, n)

\* C4: after an experiment is deleted, nothing of the subtree it owned is left:
\* its sync_recs, their recordings, and the patch_clamp_recordings,
\* multi_patch_probes, stim_pulses, stim_spikes and baselines below them.  The same
\* holds of the subtree below any deleted row; a rejected delete removes nothing.
C4_OwnedSubtreeRemoved ==
    /\ Deleted => Subtree(last.pre, {last.key}) \cap DOMAIN db = {}
    /\ last.op = "delete" /\ ~last.ok => db = last.pre

\* C4 witness: an experiment was deleted that had a sync_rec with a recording.
C4_Witness ==
    /\ Deleted
    /\ last.key[1] = "experiment"
    /\ \E r \in Subtree(last.pre, {last.key}) : r[1] = "recording"
    /\ Rows(db, "recording") = {}

ExperimentsOf(d, k) == {e \in Rows(d, "experiment") : d[e]["slice_id"] = k[2]}

\* C5 as stated: deleting a slice deletes every experiment whose slice_id names it.
C5_SliceDeleteCascades ==
    Deleted /\ last.key[1] = "slice" =>
        \A e \in ExperimentsOf(last.pre, last.key) : e \notin DOMAIN db

\* C5 amended: deleting a slice deletes no experiment; every experiment whose
\* slice_id named it is still there, its slice_id null, and nothing but the slice
\* is removed.
C5_SliceDeleteDetaches ==
    last.op = "delete" /\ last.key[1] = "slice" =>
        /\ last.ok
        /\ Removed = {last.key}
        /\ \A e \in ExperimentsOf(last.pre, last.key) :
              e \in DOMAIN db /\ db[e]["slice_id"] = NULL

\* C5 witness: a slice with two experiments was deleted.
C5_Witness ==
    /\ Deleted
    /\ last.key[1] = "slice"
    /\ Cardinality(ExperimentsOf(last.pre, last.key)) = 2
    /\ Cardinality(Rows(db, "experiment")) = 2

\* The rows row c of the state d points to through the columns cols.
PointedTo(d, c, cols) ==
    {<<f.target, d[c][f.col]>> : f \in {x \in FKColumns(c[1]) : x.col \in cols /\ d[c][x.col] # NULL}}

RemovedOf(t) == {c \in Removed : c[1] = t}

PulseResponseTargetsKept ==
    \A q \in RemovedOf("pulse_response") :
        PointedTo(last.pre, q, {"recording_id", "pulse_id", "baseline_id"}) \subseteq DOMAIN db

\* C6 as stated: no delete of a patch_clamp_recording removes the test_pulse its
\* nearest_test_pulse_id names, and no delete of a pulse_response removes the
\* recording, stim_pulse or baseline it names.
C6_ReferencesNeverCascade ==
    Deleted =>
        /\ \A p \in RemovedOf("patch_clamp_recording") :
              PointedTo(last.pre, p, {"nearest_test_pulse_id"}) \subseteq DOMAIN db
        /\ PulseResponseTargetsKept

\* C6 amended: the nearest_test_pulse edge cascades: a patch_clamp_recording deleted
\* directly or through the cascade from its recording takes the test_pulse it names
\* with it.  The edges of pulse_response do not: the recording, stim_pulse and
\* baseline a deleted pulse_response names are still there.
C6_OnlyTestPulseCascades ==
    Deleted =>
        /\ \A p \in RemovedOf("patch_clamp_recording") :
              PointedTo(last.pre, p, {"nearest_test_pulse_id"}) \cap DOMAIN db = {}
        /\ PulseResponseTargetsKept

\* C6 witness: a recording was deleted, and with it its patch_clamp_recording and
\* the test_pulse that one named.
C6_Witness ==
    /\ Deleted
    /\ last.key[1] = "recording"
    /\ \E p \in RemovedOf("patch_clamp_recording") :
          /\ last.pre[p]["recording_id"] = last.key[2]
          /\ PointedTo(last.pre, p, {"nearest_test_pulse_id"}) # {}
          /\ PointedTo(last.pre, p, {"nearest_test_pulse_id"}) \subseteq Removed

\* The foreign-key columns of the schema, <<table, column>>.
AllFKColumns == {<<f.table, f.col>> : f \in ForeignKeys}

\* The edges wired so far: <<direction, table, column>> of each relationship.  An
\* edge of direction ONETOMANY is an attribute of the referenced class (a collection
\* of children), one of direction MANYTOONE an attribute of the referencing class.
Edges == {<<RelJoin(r).direction, RelJoin(r).holder, RelJoin(r).col>> : r \in relationships}
HasParentSide(E, fk) == <<"ONETOMANY", fk[1], fk[2]>> \in E
HasChildSide(E, fk) == <<"MANYTOONE", fk[1], fk[2]>> \in E

\* C8 as stated: once wired, every foreign-key column has one relationship edge,
\* navigable from the parent (a collection) and from the child (a reference).
C8_EveryForeignKeyWired ==
    Wired => LET E == Edges
             IN  /\ Cardinality(E) = Cardinality(relationships)
                 /\ \A fk \in AllFKColumns : HasParentSide(E, fk) /\ HasChildSide(E, fk)

BothWays ==
    {<<"experiment", "slice_id">>, <<"sync_rec", "experiment_id">>,
     <<"recording", "sync_rec_id">>, <<"patch_clamp_recording", "recording_id">>,
     <<"multi_patch_probe", "patch_clamp_recording_id">>, <<"stim_pulse", "recording_id">>,
     <<"stim_spike", "recording_id">>, <<"baseline", "recording_id">>}
ChildOnly ==
    {<<"patch_clamp_recording", "nearest_test_pulse_id">>, <<"stim_spike", "pulse_id">>,
     <<"pulse_response", "recording_id">>, <<"pulse_response", "pulse_id">>,
     <<"pulse_response", "baseline_id">>}
Unwired ==
    {<<"electrode", "expt_id">>, <<"cell", "electrode_id">>, <<"pair", "pre_cell">>,
     <<"pair", "post_cell">>, <<"patch_clamp_recording", "electrode_id">>,
     <<"pulse_response", "pair_id">>}

\* C8 amended: every relationship joins on one foreign-key column and no column has
\* more than one attribute on a side; once wired, eight columns are navigable both
\* ways, five only from the referencing class, and six have no relationship at all.
C8_WiredEdges ==
    LET E == Edges
    IN  /\ Cardinality(E) = Cardinality(relationships)
        /\ \A e \in E : <<e[2], e[3]>> \in AllFKColumns
        /\ Wired =>
              /\ AllFKColumns = BothWays \cup ChildOnly \cup Unwired
              /\ \A fk \in BothWays : HasParentSide(E, fk) /\ HasChildSide(E, fk)
              /\ \A fk \in ChildOnly : ~HasParentSide(E, fk) /\ HasChildSide(E, fk)
              /\ \A fk \in Unwired : ~HasParentSide(E, fk) /\ ~HasChildSide(E, fk)

\* C8 witness: the wiring has run and rows are navigated: a sync_rec of an
\* experiment is reached through Experiment.sync_recs.
C8_Witness ==
    /\ Wired
    /\ \E r \in relationships : \E k \in Rows(db, "experiment") :
          r.attr = "sync_recs" /\ Related(db, r, k) # {}

OpenedByWrapper == {s \in 1..Len(sessions) : sessions[s].by = "wrapper"}
OpenNow == {s \in 1..Len(sessions) : sessions[s].state = "open"}

\* C1: in a call made without a session (no keyword, or session=None) the wrapper
\* opens one session, the function runs with it, and it is closed when the call
\* ends, by return or by raise; between calls no session the wrapper opened is open.
C1_WrapperSessionClosed ==
    /\ Quiet => OpenedByWrapper \cap OpenNow = {}
    /\ call.mode \in {"absent", "none"} =>
          /\ call.session \in OpenedByWrapper
          /\ call.pc \in {"entered", "ran"} => OpenedByWrapper \cap OpenNow = {call.session}
          /\ call.pc \in {"ran", "returned"} => call.ranOn = call.session
          /\ call.pc = "returned" => sessions[call.session].state = "closed"

\* C1 witness: a lookup called without a session raised, and the session the
\* wrapper opened for it is closed.
C1_Witness ==
    /\ call.pc = "returned"
    /\ call.mode = "absent"
    /\ call.result.kind = "raise"
    /\ call.session \in OpenedByWrapper
    /\ sessions[call.session].state = "closed"

\* C2: when the caller supplies its open session, by keyword or by position, the
\* wrapper opens none, the function runs on the caller's session, and that session
\* is open when the call ends.
C2_CallerSessionUsed ==
    call.mode \in {"keyword", "positional"} =>
        /\ call.session = call.arg
        /\ OpenedByWrapper \cap OpenNow = {}
        /\ call.pc \in {"ran", "returned"} => call.ranOn = call.arg
        /\ sessions[call.arg].state = "open"

\* The error a lookup raises when nothing matches.
NotFoundError(fn) == Lookup(fn, <<>>, NULL).exc

\* C3: a lookup returns the entity when exactly one row has the timestamp, raises
\* the not-found error when none has, and raises another error, not the not-found
\* one, when two or more have.
C3_LookupOutcomes ==
    call.pc \in {"ran", "returned"} /\ call.mode # "positional" =>
        LET m == {k \in DOMAIN db : k[1] = LookupTable(call.fn) /\ db[k]["acq_timestamp"] = call.ts}
        IN  /\ Cardinality(m) = 1 => call.result.kind = "return" /\ call.result.value \in m
            /\ m = {} => call.result = Raise(NotFoundError(call.fn))
            /\ Cardinality(m) >= 2 =>
                  /\ call.result.kind = "raise"
                  /\ call.result.exc # NotFoundError(call.fn)

====
